---- MODULE Spec2Model ----
(***************************************************************************)
(* A model of the leveled logging facade of package logging (logger.go):   *)
(* the process-wide threshold currLvl guarded by the RWMutex mu, SetLevel, *)
(* New, and the nine operations of Wrapper, run by concurrent goroutines.  *)
(*                                                                         *)
(* A Go string is modelled as a sequence of tokens, so that concatenation  *)
(* is \o and the empty string is << >>.  An argument list (v ...interface{})*)
(* is a sequence of strings.                                               *)
(***************************************************************************)
EXTENDS Integers, Sequences, FiniteSets, TLC

(* ------------------------------ bounds -------------------------------- *)

\* goroutines calling into the package
NumProcs == 2
\* calls (SetLevel or a Wrapper operation) begun in one behaviour
MaxCalls == 2
\* caller arguments of one call, and verbs of one format string
MaxArgs == 1

Procs == 1..NumProcs

(* ------------------------- level (logger.go) -------------------------- *)

DEBUG == 0
INFO == 1
WARNING == 2
ERROR == 3
FATAL == 4

Levels == {DEBUG, INFO, WARNING, ERROR, FATAL}

\* the value of a level-typed history variable that holds no level yet
NoLevel == 0 - 1

prefix(l) ==
    CASE l = DEBUG -> <<"DEBUG: ">>
      [] l = INFO -> <<"INFO: ">>
      [] l = WARNING -> <<"WARNING: ">>
      [] l = ERROR -> <<"ERROR: ">>
      [] l = FATAL -> <<"FATAL: ">>

(* ----------------------------- Formatter ------------------------------ *)

DefaultFormatter == "DefaultFormatter"
ColouredFormatter == "ColouredFormatter"

resetSeq == <<"\\x1b[0m">>

colour(l) ==
    CASE l = INFO -> <<"\\x1b[0;94m">>
      [] l = WARNING -> <<"\\x1b[0;95m">>
      [] l = ERROR -> <<"\\x1b[0;91m">>
      [] l = FATAL -> <<"\\x1b[0;91m">>
      [] l = DEBUG -> <<"\\x1b[<debug>m">>

\* the call-site string "<file>:<line> " that precedes the message
header == <<"<file>:<line> ">>

GetPrefix(f, l) == IF f = ColouredFormatter THEN colour(l) ELSE << >>

GetSuffix(f, l) == IF f = ColouredFormatter THEN resetSeq ELSE << >>

ColouredFormat(l, v) == <<header>> \o v

DefaultFormat(l, v) == v

Format(f, l, v) == IF f = ColouredFormatter THEN ColouredFormat(l, v) ELSE DefaultFormat(l, v)

(* ------------------ the underlying line logger (log) ------------------ *)

Verb == "%s"
Timestamp == "<date> <time> "
Newline == "\\n"

RECURSIVE Sprint(_)
\* fmt.Sprint of string operands: their concatenation
Sprint(v) == IF v = << >> THEN << >> ELSE Head(v) \o Sprint(Tail(v))

RECURSIVE SpaceJoin(_)
SpaceJoin(v) ==
    IF v = << >> THEN << >>
    ELSE IF Len(v) = 1 THEN Head(v)
    ELSE Head(v) \o <<" ">> \o SpaceJoin(Tail(v))

\* fmt.Sprintln: the operands separated by spaces, and a newline
Sprintln(v) == SpaceJoin(v) \o <<Newline>>

\* what fmt appends for the arguments no verb consumed
Extra(v, k) == <<"%!(EXTRA ">> \o SpaceJoin(SubSeq(v, k, Len(v))) \o <<")">>

RECURSIVE SprintfFrom(_, _, _, _)
SprintfFrom(format, v, i, k) ==
    IF i > Len(format)
    THEN (IF k <= Len(v) THEN Extra(v, k) ELSE << >>)
    ELSE IF format[i] = Verb
    THEN (IF k <= Len(v) THEN v[k] ELSE <<"%!s(MISSING)">>)
             \o SprintfFrom(format, v, i + 1, k + 1)
    ELSE <<format[i]>> \o SprintfFrom(format, v, i + 1, k)

\* fmt.Sprintf with %s verbs: the k-th verb takes the k-th argument
Sprintf(format, v) == SprintfFrom(format, v, 1, 1)

\* log.New(out, prefix, flag)
LogNew(out, pfx) == [out |-> out, prefix |-> pfx]

\* log.Logger.Output with flag = Ldate | Ltime: prefix, timestamp, message,
\* and a newline when the message does not end in one
Output(lg, s) ==
    lg.prefix \o <<Timestamp>> \o s
        \o (IF s # << >> /\ s[Len(s)] = Newline THEN << >> ELSE <<Newline>>)

PrintFamily == {"Print", "Printf", "Println"}
FatalFamily == {"Fatal", "Fatalf", "Fatalln"}
PanicFamily == {"Panic", "Panicf", "Panicln"}
Formatted == {"Printf", "Fatalf", "Panicf"}
Ops == PrintFamily \cup FatalFamily \cup PanicFamily

\* the message a primitive of the underlying logger renders
Render(call) ==
    CASE call.prim \in {"Print", "Fatal", "Panic"} -> Sprint(call.args)
      [] call.prim \in Formatted -> Sprintf(call.format, call.args)
      [] call.prim \in {"Println", "Fatalln", "Panicln"} -> Sprintln(call.args)

\* what a primitive of the underlying logger does after its write
Effect(prim) ==
    IF prim \in FatalFamily THEN "exit"
    ELSE IF prim \in PanicFamily THEN "panic"
    ELSE "returned"

(* -------------------------------- New --------------------------------- *)

Nil == "nil"
Stdout == "os.Stdout"
Stderr == "os.Stderr"
OutBuf == "out"
ErrBuf == "errOut"
Dests == {Stdout, Stderr, OutBuf, ErrBuf}

\* the five Wrappers New builds once its arguments are resolved
NewWrappers(out, errOut, f) ==
    LET debug == [lvl |-> DEBUG, formatter |-> f,
                  logger |-> LogNew(out, GetPrefix(f, DEBUG) \o prefix(DEBUG))]
        info == [lvl |-> INFO, formatter |-> f,
                 logger |-> LogNew(out, GetPrefix(f, INFO) \o prefix(INFO))]
        warning == [lvl |-> INFO, formatter |-> f,
                    logger |-> LogNew(out, GetPrefix(f, WARNING) \o prefix(WARNING))]
        errLogger == [lvl |-> INFO, formatter |-> f,
                      logger |-> LogNew(errOut, GetPrefix(f, ERROR) \o prefix(ERROR))]
        fatal == [lvl |-> INFO, formatter |-> f,
                  logger |-> LogNew(errOut, GetPrefix(f, FATAL) \o prefix(FATAL))]
    IN  [l \in Levels |->
            CASE l = DEBUG -> debug
              [] l = INFO -> info
              [] l = WARNING -> warning
              [] l = ERROR -> errLogger
              [] l = FATAL -> fatal]

\* a slip in New: the ERROR and FATAL loggers built on out
NewErrorsToOut(out, errOut, f) ==
    NewWrappers(IF out = Nil THEN Stdout ELSE out,
                IF out = Nil THEN Stdout ELSE out,
                IF f = Nil THEN DefaultFormatter ELSE f)

New(out, errOut, f) ==
    NewWrappers(IF out = Nil THEN Stdout ELSE out,
                IF errOut = Nil THEN Stderr ELSE errOut,
                IF f = Nil THEN DefaultFormatter ELSE f)

(* ------------------------------ Wrapper ------------------------------- *)

\* a slip in the filter: the comparison turned round
PassesBelow(w, threshold) == w.lvl <= threshold

\* the filter of every Wrapper operation: w.lvl >= currLvl
Passes(w, threshold) == w.lvl >= threshold

\* The call each operation makes on w.logger once it passed the filter.
WrapperPrint(w, v) ==
    [prim |-> "Print", format |-> << >>,
     args |-> Format(w.formatter, w.lvl, v) \o <<GetSuffix(w.formatter, w.lvl)>>]

\* a slip in Printf: the format forwarded without its leading verb
PrintfNoLeadingVerb(w, format, v) ==
    [prim |-> "Printf",
     format |-> format \o GetSuffix(w.formatter, w.lvl),
     args |-> Format(w.formatter, w.lvl, v)]

\* a slip in Printf: an empty string put before the formatted arguments
PrintfWithFiller(w, format, v) ==
    [prim |-> "Printf",
     format |-> <<Verb>> \o format \o GetSuffix(w.formatter, w.lvl),
     args |-> <<<< >>>> \o Format(w.formatter, w.lvl, v)]

Printf(w, format, v) ==
    [prim |-> "Printf",
     format |-> <<Verb>> \o format \o GetSuffix(w.formatter, w.lvl),
     args |-> Format(w.formatter, w.lvl, v)]

Println(w, v) ==
    [prim |-> "Println", format |-> << >>,
     args |-> Format(w.formatter, w.lvl, v) \o <<GetSuffix(w.formatter, w.lvl)>>]

\* a slip in Fatal: the call forwarded to a primitive that returns
FatalForwardsPrint(w, v) ==
    [prim |-> "Print", format |-> << >>,
     args |-> Format(w.formatter, w.lvl, v) \o <<GetSuffix(w.formatter, w.lvl)>>]

Fatal(w, v) ==
    [prim |-> "Fatal", format |-> << >>,
     args |-> Format(w.formatter, w.lvl, v) \o <<GetSuffix(w.formatter, w.lvl)>>]

Fatalf(w, format, v) ==
    [prim |-> "Fatalf",
     format |-> <<Verb>> \o format \o GetSuffix(w.formatter, w.lvl),
     args |-> Format(w.formatter, w.lvl, v)]

Fatalln(w, v) ==
    [prim |-> "Fatalln", format |-> << >>,
     args |-> Format(w.formatter, w.lvl, v) \o <<GetSuffix(w.formatter, w.lvl)>>]

Panic(w, v) ==
    [prim |-> "Fatal", format |-> << >>,
     args |-> Format(w.formatter, w.lvl, v) \o <<GetSuffix(w.formatter, w.lvl)>>]

Panicf(w, format, v) ==
    [prim |-> "Panicf",
     format |-> <<Verb>> \o format \o GetSuffix(w.formatter, w.lvl),
     args |-> Format(w.formatter, w.lvl, v)]

Panicln(w, v) ==
    [prim |-> "Panicln", format |-> << >>,
     args |-> Format(w.formatter, w.lvl, v) \o <<GetSuffix(w.formatter, w.lvl)>>]

Forwarded(op, w, format, v) ==
    CASE op = "Print" -> WrapperPrint(w, v)
      [] op = "Printf" -> Printf(w, format, v)
      [] op = "Println" -> Println(w, v)
      [] op = "Fatal" -> Fatal(w, v)
      [] op = "Fatalf" -> Fatalf(w, format, v)
      [] op = "Fatalln" -> Fatalln(w, v)
      [] op = "Panic" -> Panic(w, v)
      [] op = "Panicf" -> Panicf(w, format, v)
      [] op = "Panicln" -> Panicln(w, v)

NoCall == [prim |-> "", format |-> << >>, args |-> << >>]

(* ------------------------------- state -------------------------------- *)

VARIABLES
    currLvl,   \* var currLvl: the process-wide threshold
    mu,        \* var mu sync.RWMutex: the goroutines holding it shared, and
               \* the goroutine that announced or holds it exclusively (0: none)
    loggers,   \* the Logger values New has returned, in order
    procs,     \* each goroutine's current call: its position and locals
    received,  \* the number of lines each destination has received
    exited,    \* os.Exit was called: the process is gone
    lastSet,   \* history: the argument of the last SetLevel that returned
    ncalls     \* history: the calls begun so far

vars == <<currLvl, mu, loggers, procs, received, exited, lastSet, ncalls>>

\* caller argument lists: n distinct one-token strings
ArgList(n) == [i \in 1..n |-> <<ToString(i)>>]
ArgLists == {ArgList(n) : n \in 0..MaxArgs}

\* format strings with n verbs: "Test ", "Test %s", "Test %s.%s", ...
RECURSIVE FormatOf(_)
FormatOf(n) ==
    IF n = 0 THEN <<"Test ">>
    ELSE IF n = 1 THEN <<"Test ", Verb>>
    ELSE FormatOf(n - 1) \o <<".", Verb>>
Formats == {FormatOf(n) : n \in 0..MaxArgs}

\* a Logger value New returned, with the history of its construction: the
\* out and errOut New was given
Built(out, errOut, f) ==
    [w |-> New(out, errOut, f), out |-> out, errOut |-> errOut]

\* The Loggers of the process, built as package-level variables before any
\* call: one with every argument nil, one as the test builds it.
Loggers == <<Built(Nil, Nil, Nil), Built(OutBuf, ErrBuf, ColouredFormatter)>>

Idle ==
    [pc |-> "idle", op |-> "", lg |-> 0, lvl |-> NoLevel, format |-> << >>,
     v |-> << >>, T0 |-> NoLevel, W |-> NoLevel, clean |-> TRUE,
     passed |-> FALSE, call |-> NoCall, wrote |-> << >>, res |-> ""]

Init ==
    /\ currLvl = INFO
    /\ mu = [readers |-> {}, writer |-> 0]
    /\ loggers = Loggers
    /\ procs = [g \in Procs |-> Idle]
    /\ received = [d \in Dests |-> 0]
    /\ exited = FALSE
    /\ lastSet = NoLevel
    /\ ncalls = 0

\* goroutine g is inside a call
InCall(g) == procs[g].pc \notin {"idle", "done", "panicked"}
InSetLevel(g) == procs[g].op = "SetLevel" /\ InCall(g)
InWrapper(g) == procs[g].op \in Ops /\ InCall(g)

CanBegin(g) ==
    /\ ~exited
    /\ procs[g].pc \in {"idle", "done"}
    /\ ncalls < MaxCalls

\* the Wrapper a call of goroutine g is made on
WrapperOf(g) == loggers[procs[g].lg].w[procs[g].lvl]

(* ------------------------------ SetLevel ------------------------------ *)

\* goroutine g calls SetLevel(lvl)
CallSetLevel(g, lvl) ==
    /\ CanBegin(g)
    /\ procs' = [h \in Procs |->
                    IF h = g
                    THEN [Idle EXCEPT !.pc = "lock", !.op = "SetLevel", !.lvl = lvl,
                                      !.T0 = currLvl, !.W = lastSet]
                    ELSE IF InWrapper(h) THEN [procs[h] EXCEPT !.clean = FALSE]
                    ELSE procs[h]]
    /\ ncalls' = ncalls + 1
    /\ UNCHANGED <<currLvl, mu, loggers, received, exited, lastSet>>

\* mu.Lock(), first half: the writer announces itself, which keeps new
\* readers out (sync.RWMutex)
SetLevelLock(g) ==
    /\ ~exited
    /\ procs[g].pc = "lock"
    /\ mu.writer = 0
    /\ mu' = [mu EXCEPT !.writer = g]
    /\ procs' = [procs EXCEPT ![g].pc = "lockwait"]
    /\ UNCHANGED <<currLvl, loggers, received, exited, lastSet, ncalls>>

\* mu.Lock(), second half: the readers that hold mu have left
SetLevelAcquire(g) ==
    /\ ~exited
    /\ procs[g].pc = "lockwait"
    /\ mu.readers = {}
    /\ procs' = [procs EXCEPT ![g].pc = "write"]
    /\ UNCHANGED <<currLvl, mu, loggers, received, exited, lastSet, ncalls>>

\* a slip in SetLevel: the assignment made to a local (currLvl := lvl)
SetLevelWriteLocal(g) ==
    /\ ~exited
    /\ procs[g].pc = "write"
    /\ procs' = [procs EXCEPT ![g].pc = "unlock"]
    /\ UNCHANGED <<currLvl, mu, loggers, received, exited, lastSet, ncalls>>

\* currLvl = lvl
SetLevelWrite(g) ==
    /\ ~exited
    /\ procs[g].pc = "write"
    /\ currLvl' = procs[g].lvl
    /\ procs' = [procs EXCEPT ![g].pc = "unlock"]
    /\ UNCHANGED <<mu, loggers, received, exited, lastSet, ncalls>>

\* defer mu.Unlock(), and the return
SetLevelUnlock(g) ==
    /\ ~exited
    /\ procs[g].pc = "unlock"
    /\ mu' = [mu EXCEPT !.writer = 0]
    /\ procs' = [procs EXCEPT ![g].pc = "done", ![g].res = "returned"]
    /\ lastSet' = procs[g].lvl
    /\ UNCHANGED <<currLvl, loggers, received, exited, ncalls>>

(* ------------------------- Wrapper operations ------------------------- *)

\* goroutine g calls operation op of the Wrapper that Logger lg exposes as l
CallWrapper(g, lg, l, op, format, v) ==
    /\ CanBegin(g)
    /\ lg \in 1..Len(loggers)
    /\ procs' = [procs EXCEPT ![g] =
                    [Idle EXCEPT !.pc = "rlock", !.op = op, !.lg = lg, !.lvl = l,
                                 !.format = format, !.v = v, !.T0 = currLvl,
                                 !.W = lastSet,
                                 !.clean = ~(\E h \in Procs : InSetLevel(h))]]
    /\ ncalls' = ncalls + 1
    /\ UNCHANGED <<currLvl, mu, loggers, received, exited, lastSet>>

\* mu.RLock(): waits while a writer has announced itself or holds mu
RLock(g) ==
    /\ ~exited
    /\ procs[g].pc = "rlock"
    /\ mu.writer = 0
    /\ mu' = [mu EXCEPT !.readers = @ \cup {g}]
    /\ procs' = [procs EXCEPT ![g].pc = "runlock"]
    /\ UNCHANGED <<currLvl, loggers, received, exited, lastSet, ncalls>>

\* a slip in the Wrapper operations: mu kept while the call goes on
\* (defer mu.RUnlock())
RUnlockDeferred(g) ==
    /\ ~exited
    /\ procs[g].pc = "runlock"
    /\ procs' = [procs EXCEPT ![g].pc = "check"]
    /\ UNCHANGED <<currLvl, mu, loggers, received, exited, lastSet, ncalls>>

\* mu.RUnlock()
RUnlock(g) ==
    /\ ~exited
    /\ procs[g].pc = "runlock"
    /\ mu' = [mu EXCEPT !.readers = @ \ {g}]
    /\ procs' = [procs EXCEPT ![g].pc = "check"]
    /\ UNCHANGED <<currLvl, loggers, received, exited, lastSet, ncalls>>

\* What a read of currLvl made without mu can return: the value stored, or
\* the value a SetLevel is storing at that moment.
Visible == {currLvl} \cup {procs[h].lvl : h \in {k \in Procs : procs[k].pc = "write"}}

\* if w.lvl >= currLvl { Format, GetSuffix, ... }: the read of currLvl, the
\* decision, and the arguments of the call on w.logger
Check(g) ==
    /\ ~exited
    /\ procs[g].pc = "check"
    /\ LET p == procs[g]
           w == WrapperOf(g)
       IN  \E threshold \in Visible :
               IF Passes(w, threshold)
               THEN procs' = [procs EXCEPT ![g].pc = "forward", ![g].passed = TRUE,
                                  ![g].call = Forwarded(p.op, w, p.format, p.v)]
               ELSE procs' = [procs EXCEPT ![g].pc = "done", ![g].res = "returned"]
    /\ UNCHANGED <<currLvl, mu, loggers, received, exited, lastSet, ncalls>>

\* w.logger.<primitive>(...): the write of the line to the logger's
\* destination; a Print* primitive then returns
Forward(g) ==
    /\ ~exited
    /\ procs[g].pc = "forward"
    /\ LET p == procs[g]
           w == WrapperOf(g)
           d == w.logger.out
           line == Output(w.logger, Render(p.call))
           eff == Effect(p.call.prim)
       IN  /\ received' = [received EXCEPT ![d] = @ + 1]
           /\ procs' = [procs EXCEPT
                  ![g].wrote = Append(@, [dest |-> d, line |-> line]),
                  ![g].pc = IF eff = "returned" THEN "done" ELSE "terminate",
                  ![g].res = IF eff = "returned" THEN "returned" ELSE ""]
    /\ UNCHANGED <<currLvl, mu, loggers, exited, lastSet, ncalls>>

\* the end of log.Logger.Fatal* (os.Exit(1)) and of log.Logger.Panic* (panic)
Terminate(g) ==
    /\ ~exited
    /\ procs[g].pc = "terminate"
    /\ LET eff == Effect(procs[g].call.prim)
       IN  /\ procs' = [procs EXCEPT ![g].res = eff,
                              ![g].pc = IF eff = "exit" THEN "done" ELSE "panicked"]
           /\ exited' = (eff = "exit")
    /\ UNCHANGED <<currLvl, mu, loggers, received, lastSet, ncalls>>

(* ---------------------------- specifications -------------------------- *)

\* Concurrent goroutines sharing the first Logger.  The calls are those that
\* differ in their steps: a Wrapper of each level tag New assigns (DEBUG,
\* INFO), one operation for each behaviour of the underlying logger (return,
\* exit, panic), a threshold below and one above the default; one argument
\* list.
Next ==
    \/ \E g \in Procs, lvl \in {DEBUG, WARNING} : CallSetLevel(g, lvl)
    \/ \E g \in Procs : SetLevelLock(g)
    \/ \E g \in Procs : SetLevelAcquire(g)
    \/ \E g \in Procs : SetLevelWrite(g)
    \/ \E g \in Procs : SetLevelUnlock(g)
    \/ \E g \in Procs, l \in {DEBUG, INFO}, op \in {"Println", "Fatal", "Panicln"} :
          CallWrapper(g, 1, l, op, << >>, ArgList(1))
    \/ \E g \in Procs : RLock(g)
    \/ \E g \in Procs : RUnlock(g)
    \/ \E g \in Procs : Check(g)
    \/ \E g \in Procs : Forward(g)
    \/ \E g \in Procs : Terminate(g)

Spec == Init /\ [][Next]_vars

\* the steps of goroutine g that are the package's own: those of SetLevel,
\* and those of a Wrapper operation up to its call on the underlying logger
Runs(g) ==
    \/ SetLevelLock(g)
    \/ SetLevelAcquire(g)
    \/ SetLevelWrite(g)
    \/ SetLevelUnlock(g)
    \/ RLock(g)
    \/ RUnlock(g)
    \/ Check(g)

\* The scheduler runs every goroutine that can take a step; the write to a
\* destination is not the scheduler's, and may stall for ever.
Fairness == \A g \in Procs : WF_vars(Runs(g))

LiveSpec == Spec /\ Fairness

\* One goroutine, and every level, operation, format string and argument
\* list.
SeqNext ==
    \/ \E lvl \in Levels : CallSetLevel(1, lvl)
    \/ SetLevelLock(1)
    \/ SetLevelAcquire(1)
    \/ SetLevelWrite(1)
    \/ SetLevelUnlock(1)
    \/ \E lg \in 1..Len(Loggers), l \in Levels, op \in Ops \ Formatted,
          v \in ArgLists :
          CallWrapper(1, lg, l, op, << >>, v)
    \/ \E lg \in 1..Len(Loggers), l \in Levels, op \in Formatted,
          format \in Formats, v \in ArgLists :
          CallWrapper(1, lg, l, op, format, v)
    \/ RLock(1)
    \/ RUnlock(1)
    \/ Check(1)
    \/ Forward(1)
    \/ Terminate(1)

SeqSpec == Init /\ [][SeqNext]_vars

(* ------------------------------- claims ------------------------------- *)

\* the call of goroutine g is past its filter
Decided(g) ==
    procs[g].op \in Ops /\ procs[g].pc \in {"forward", "terminate", "done", "panicked"}

\* the call of goroutine g is over
Completed(g) == procs[g].op \in Ops /\ procs[g].pc \in {"done", "panicked"}

\* the standard and the error destination of Logger lg: what New was given,
\* or the process's own streams
StandardDest(lg) == IF loggers[lg].out = Nil THEN Stdout ELSE loggers[lg].out
ErrorDest(lg) == IF loggers[lg].errOut = Nil THEN Stderr ELSE loggers[lg].errOut

RECURSIVE NumVerbs(_)
NumVerbs(format) ==
    IF format = << >> THEN 0
    ELSE (IF Head(format) = Verb THEN 1 ELSE 0) + NumVerbs(Tail(format))

\* C1 (as claimed): with no SetLevel concurrent with it, a Print, Printf or
\* Println call on the Wrapper exposed as level L writes a line iff L is at
\* or above the threshold T in effect, and writes nothing when L < T.
C1_EmitsIffAtOrAboveThreshold ==
    \A g \in Procs :
        (Completed(g) /\ procs[g].op \in PrintFamily /\ procs[g].clean)
            => /\ (Len(procs[g].wrote) = 1) <=> (procs[g].lvl >= procs[g].T0)
               /\ (procs[g].lvl < procs[g].T0) => (procs[g].wrote = << >>)

\* C2: every line written through the DEBUG, INFO or WARNING Wrapper of a
\* Logger goes to that Logger's standard destination, and every line written
\* through its ERROR or FATAL Wrapper goes to its error destination.
C2_Routing ==
    \A g \in Procs :
        \A i \in 1..Len(procs[g].wrote) :
            procs[g].wrote[i].dest =
                IF procs[g].lvl \in {DEBUG, INFO, WARNING}
                THEN StandardDest(procs[g].lg)
                ELSE ErrorDest(procs[g].lg)

\* a line written through an ERROR or FATAL Wrapper, and it is in errOut
C2_Witness ==
    \E g \in Procs :
        /\ procs[g].lvl \in {ERROR, FATAL}
        /\ Len(procs[g].wrote) = 1
        /\ procs[g].wrote[1].dest = ErrBuf
        /\ received[ErrBuf] > 0 /\ received[OutBuf] = 0

\* C3: once SetLevel(W) has returned, and until the next SetLevel is called,
\* the threshold is W, and every call begun then on any Wrapper of any
\* Logger (each of them built before that SetLevel, under the threshold INFO)
\* is filtered against W: it passes iff the Wrapper's level tag is >= W.
C3_SetLevelObserved ==
    /\ (lastSet # NoLevel /\ ~(\E h \in Procs : InSetLevel(h))) => currLvl = lastSet
    /\ \A g \in Procs :
           (Decided(g) /\ procs[g].clean /\ procs[g].W # NoLevel)
               => (procs[g].passed <=> (WrapperOf(g).lvl >= procs[g].W))

\* a call filtered against W whose outcome is not the one the threshold at
\* the Wrapper's construction (INFO) gives
C3_Witness ==
    \E g \in Procs :
        /\ Decided(g) /\ procs[g].clean /\ procs[g].W # NoLevel
        /\ procs[g].passed # (WrapperOf(g).lvl >= INFO)

\* the line C4 describes for a call: colour, label, timestamp, call site,
\* the message, reset, newline
C4Line(l, message) ==
    colour(l) \o prefix(l) \o <<Timestamp>> \o header \o message
        \o resetSeq \o <<Newline>>

\* the calls C4 is about: Print and Printf on the INFO, WARNING, ERROR and
\* FATAL Wrappers of a Logger with the ColouredFormatter, no SetLevel called
C4Case(g) ==
    /\ Completed(g)
    /\ procs[g].op \in {"Print", "Printf"}
    /\ procs[g].lvl \in {INFO, WARNING, ERROR, FATAL}
    /\ WrapperOf(g).formatter = ColouredFormatter
    /\ procs[g].clean /\ procs[g].W = NoLevel

C5_NoDataRace ==
    ~(\E g \in Procs, h \in Procs :
          /\ procs[g].pc = "check"
          /\ procs[h].pc = "write")

\* C6 (as claimed): a Fatal, Fatalf, Fatalln, Panic, Panicf or Panicln call
\* never returns normally, under any threshold.
C6_NeverReturns ==
    \A g \in Procs :
        (procs[g].op \in FatalFamily \cup PanicFamily)
            => ~(procs[g].pc = "done" /\ procs[g].res = "returned")

\* C6 (amended): such a call that passes the filter ends in an exit or a
\* panic, after its line was written, and does not return; one that the
\* filter drops returns normally and writes nothing.
C6_NeverReturnsIfPassed ==
    \A g \in Procs :
        (procs[g].op \in FatalFamily \cup PanicFamily)
            => /\ (procs[g].pc = "terminate") => (Len(procs[g].wrote) = 1)
               /\ Completed(g) =>
                      IF procs[g].passed
                      THEN /\ procs[g].res \in {"exit", "panic"}
                           /\ Len(procs[g].wrote) = 1
                           /\ (procs[g].res = "exit") => exited
                      ELSE procs[g].res = "returned" /\ procs[g].wrote = << >>

\* a Fatal call that ended in an exit, its line written
C6_Witness ==
    \E g \in Procs :
        /\ procs[g].op = "Fatal" /\ Completed(g)
        /\ procs[g].res = "exit" /\ Len(procs[g].wrote) = 1

\* C7 (as claimed): an operation that passes the filter forwards to the
\* primitive of its own name, and an emitting Panic ends in a panic.
C7_ForwardsToSameName ==
    \A g \in Procs :
        (Decided(g) /\ procs[g].passed)
            => /\ procs[g].call.prim = procs[g].op
               /\ (Completed(g) /\ procs[g].op = "Panic") => procs[g].res = "panic"

\* the argument each verb of a format takes, in the order of the verbs
\* (<<"%!s(MISSING)">> where the arguments ran out)
RECURSIVE Binding(_, _, _)
Binding(format, v, k) ==
    IF format = << >> THEN << >>
    ELSE IF Head(format) = Verb
    THEN <<IF k <= Len(v) THEN v[k] ELSE <<"%!s(MISSING)">>>>
             \o Binding(Tail(format), v, k + 1)
    ELSE Binding(Tail(format), v, k)

\* a Printf, Fatalf or Panicf call that passed the filter
C8Case(g) == Decided(g) /\ procs[g].passed /\ procs[g].op \in Formatted

C9LockDiscipline ==
    \A g \in Procs :
        /\ (g \in mu.readers) => procs[g].pc = "runlock"
        /\ (mu.writer = g) => procs[g].pc \in {"lockwait", "write", "unlock"}

\* a goroutine is inside a call, the process lives, and nothing can happen
C9Deadlock == ~exited /\ (\E g \in Procs : InCall(g)) /\ ~ENABLED Next

\* C9: no Wrapper operation holds mu past its read, SetLevel holds it for
\* the assignment only, the system never deadlocks, and under fair
\* scheduling every SetLevel call returns while the process lives, also when
\* an emitter never leaves (or panics in) the underlying write.
C9_WritersNotBlocked ==
    /\ [](C9LockDiscipline /\ ~C9Deadlock)
    /\ \A g \in Procs : InSetLevel(g) ~> (~InSetLevel(g) \/ exited)

\* SetLevel returned while an emitter that passed the filter has not left
\* the underlying write
C9_Witness ==
    \E g \in Procs, h \in Procs :
        /\ procs[g].op = "SetLevel" /\ procs[g].pc = "done"
        /\ procs[h].pc = "forward" /\ ~procs[h].clean

\* C10: for the five Wrappers of a Logger, under every threshold T: if the
\* Wrapper exposed as L passes, so does the one exposed as any L' >= L; and
\* a Wrapper that T drops is dropped by every T' >= T.  A Print-family call
\* made with no SetLevel concurrent with it is decided by that filter.
C10_Monotone ==
    /\ \A lg \in 1..Len(loggers), T \in Levels, L1 \in Levels, L2 \in Levels :
           (L1 <= L2 /\ Passes(loggers[lg].w[L1], T)) => Passes(loggers[lg].w[L2], T)
    /\ \A lg \in 1..Len(loggers), L \in Levels, T1 \in Levels, T2 \in Levels :
           (T1 <= T2 /\ ~Passes(loggers[lg].w[L], T1)) => ~Passes(loggers[lg].w[L], T2)
    /\ \A g \in Procs :
           (Decided(g) /\ procs[g].op \in PrintFamily /\ procs[g].clean)
               => /\ procs[g].passed =>
                         \A L2 \in Levels :
                             procs[g].lvl <= L2 => loggers[procs[g].lg].w[L2].lvl >= procs[g].T0
                  /\ ~procs[g].passed =>
                         \A T2 \in Levels : procs[g].T0 <= T2 => WrapperOf(g).lvl < T2

\* a Println on the DEBUG Wrapper emitted under the threshold DEBUG
C10_Witness ==
    \E g \in Procs :
        /\ Completed(g) /\ procs[g].op = "Println" /\ procs[g].clean
        /\ procs[g].lvl = DEBUG /\ procs[g].T0 = DEBUG
        /\ procs[g].passed /\ Len(procs[g].wrote) = 1

====
